---- MODULE Spec2Model ----
(***************************************************************************)
(* A model of videoscriber: the subtitle orchestrator                      *)
(* (internal/pkg/subtitles), the subtitle HTTP handlers that scan the      *)
(* output directory (internal/app/web), and the start-up sequence of the   *)
(* two command entry points.                                               *)
(*                                                                         *)
(* Strings are sequences of one-character strings, so that path.Ext,       *)
(* strings.Replace and path.Join are computed as the Go library computes   *)
(* them.                                                                   *)
(***************************************************************************)
EXTENDS Naturals, Sequences, FiniteSets

VARIABLES
    \* ---- one call of GenerateFromAudioData -------------------------------
    inputs,     \* the FileName of each *Input, in order
    mainpc,     \* position of the calling goroutine
    spawned,    \* loop index of "for _, in := range inputs"
    wg,         \* sync.WaitGroup counter
    errCh,      \* buffered channel of errors (its queue)
    err,        \* the local "var err error"
    ret,        \* the value returned
    pc,         \* position of each pipeline goroutine
    deferred,   \* per pipeline: stack of paths handed to "defer s.removeFile"
    failed,     \* per pipeline: the stage whose call returned an error
    stages,     \* per pipeline: the stages executed so far (history)
    sent,       \* per pipeline: number of errors sent on errCh (history)
    tmpFiles,   \* files present in the temp directory
    outFiles,   \* files written below the output directory by writeFile
    \* ---- subtitlePath as a pure function ---------------------------------
    pname,      \* the file name handed to subtitlePath
    presult,    \* its result (<<>> before the call)
    pstate,     \* "input" | "computed"
    \* ---- HTTP handlers over the output directory -------------------------
    fs,         \* the output directory tree
    req,        \* the requests in flight, one record per request
    \* ---- process start-up -------------------------------------------------
    entry,      \* which main: "flag" (-openai-key) or "env" (OPENAI_API_KEY)
    key,        \* whether the API credential is set
    dirs,       \* which of the two directories exist
    mkdirOK,    \* for each directory, whether os.Mkdir would succeed
    bootpc,     \* position in main
    exitCode,   \* the argument of os.Exit, 0 while the process runs
    mkdirFailed,\* directories whose os.Mkdir returned an error (history)
    built,      \* the orchestrator has been built (subtitles.New)
    listening   \* webApp.Run has been called

genVars  == <<inputs, mainpc, spawned, wg, errCh, err, ret, pc, deferred,
              failed, stages, sent, tmpFiles, outFiles>>
pathVars == <<pname, presult, pstate>>
webVars  == <<fs, req>>
bootVars == <<entry, key, dirs, mkdirOK, bootpc, exitCode, mkdirFailed,
              built, listening>>
vars     == <<genVars, pathVars, webVars, bootVars>>
notGen   == <<pathVars, webVars, bootVars>>
notPath  == <<genVars, webVars, bootVars>>
notWeb   == <<genVars, pathVars, bootVars>>
notBoot  == <<genVars, pathVars, webVars>>

----------------------------------------------------------------------------
(* Bounds *)

\* largest number of *Input handed to one call of GenerateFromAudioData
MaxJobs == 2
\* longest file name handed to subtitlePath
MaxNameLen == 3
\* largest number of calls that return an error in one call of
\* GenerateFromAudioData: failing stages and failing os.Remove together
MaxFaults == 2
\* largest number of requests the server handles at a time
MaxRequests == 2

----------------------------------------------------------------------------
(* Strings *)

Alphabet == {"a", "b", "m", ".", "/"}

srt == <<".", "s", "r", "t">>

\* the constant subtitlesDir = "subtitles"
subtitlesDir == <<"s", "u", "b", "t", "i", "t", "l", "e", "s">>

RECURSIVE StringsUpTo(_)
StringsUpTo(n) ==
    IF n = 0 THEN {<<>>}
    ELSE LET shorter == StringsUpTo(n - 1)
         IN  shorter \cup {Append(s, c) : s \in shorter, c \in Alphabet}

\* s[from..], 1-based
Suffix(s, from) == SubSeq(s, from, Len(s))

HasPrefixAt(s, old, i) ==
    /\ i + Len(old) - 1 <= Len(s)
    /\ SubSeq(s, i, i + Len(old) - 1) = old

\* path.Ext: scan back from the end, stop at a slash; the suffix from the
\* first dot met, "" when none is met.
RECURSIVE ExtScan(_, _)
ExtScan(p, i) ==
    IF i < 1 THEN <<>>
    ELSE IF p[i] = "/" THEN <<>>
    ELSE IF p[i] = "." THEN Suffix(p, i)
    ELSE ExtScan(p, i - 1)

Ext(p) == ExtScan(p, Len(p))

\* strings.Index: the first position of old in s, 0 when absent
RECURSIVE IndexFrom(_, _, _)
IndexFrom(s, old, i) ==
    IF i + Len(old) - 1 > Len(s) THEN 0
    ELSE IF HasPrefixAt(s, old, i) THEN i
    ELSE IndexFrom(s, old, i + 1)

\* strings.Replace(s, old, new, 1)
ReplaceFirst(s, old, new) ==
    IF old = new THEN s
    ELSE IF old = <<>> THEN new \o s
    ELSE LET j == IndexFrom(s, old, 1)
         IN  IF j = 0 THEN s
             ELSE SubSeq(s, 1, j - 1) \o new \o Suffix(s, j + Len(old))

\* the slash-separated elements of a path
RECURSIVE Split(_, _, _)
Split(p, i, cur) ==
    IF i > Len(p) THEN <<cur>>
    ELSE IF p[i] = "/" THEN <<cur>> \o Split(p, i + 1, <<>>)
    ELSE Split(p, i + 1, Append(cur, p[i]))

dotdot == <<".", ".">>

\* path.Clean on the elements: drop "" and ".", let ".." take back the
\* element before it (kept in front of a relative path, dropped at a root)
RECURSIVE CleanElems(_, _, _, _)
CleanElems(elems, i, stack, rooted) ==
    IF i > Len(elems) THEN stack
    ELSE LET e == elems[i]
         IN  IF e = <<>> \/ e = <<".">>
                 THEN CleanElems(elems, i + 1, stack, rooted)
             ELSE IF e = dotdot
                 THEN IF Len(stack) > 0 /\ stack[Len(stack)] # dotdot
                          THEN CleanElems(elems, i + 1,
                                          SubSeq(stack, 1, Len(stack) - 1), rooted)
                      ELSE IF rooted
                          THEN CleanElems(elems, i + 1, stack, rooted)
                      ELSE CleanElems(elems, i + 1, Append(stack, e), rooted)
             ELSE CleanElems(elems, i + 1, Append(stack, e), rooted)

RECURSIVE JoinElems(_, _)
JoinElems(stack, i) ==
    IF i > Len(stack) THEN <<>>
    ELSE (IF i > 1 THEN <<"/">> ELSE <<>>) \o stack[i] \o JoinElems(stack, i + 1)

Clean(p) ==
    IF p = <<>> THEN <<".">>
    ELSE LET rooted == p[1] = "/"
             body   == JoinElems(CleanElems(Split(p, 1, <<>>), 1, <<>>, rooted), 1)
         IN  IF rooted THEN <<"/">> \o body
             ELSE IF body = <<>> THEN <<".">>
             ELSE body

\* path.Join(dir, name)
Join(dir, name) ==
    IF Len(dir) + Len(name) = 0 THEN <<>>
    ELSE IF dir = <<>> THEN Clean(name)
    ELSE Clean(dir \o <<"/">> \o name)

subtitlePath(dir, name) == Join(dir, ReplaceFirst(name, Ext(name), srt))

----------------------------------------------------------------------------
(* subtitlePath applied to bounded inputs *)

PathNames == StringsUpTo(MaxNameLen)

InitPath ==
    /\ pname \in PathNames
    /\ presult = <<>>
    /\ pstate = "input"

ComputeSubtitlePath ==
    /\ pstate = "input"
    /\ presult' = subtitlePath(subtitlesDir, pname)
    /\ pstate' = "computed"
    /\ UNCHANGED <<pname, notPath>>

----------------------------------------------------------------------------
(* One call of GenerateFromAudioData *)

\* the i-th of pairwise different upload names: "a.m", "aa.m", "aaa.m", ...
DistinctName(i) == [k \in 1 .. i |-> "a"] \o <<".", "m">>

\* the calls modelled: n uploads that all carry the same name (their
\* subtitle paths collide), or n uploads with pairwise different names
SameNamed(n) == [i \in 1 .. n |-> DistinctName(1)]
AllDistinct(n) == [i \in 1 .. n |-> DistinctName(i)]

JobNames == {DistinctName(i) : i \in 1 .. MaxJobs}

Jobs == 1 .. Len(inputs)

\* the nil error
NoErr == [job |-> 0, stage |-> "nil"]

\* the error processFile sends when the call of stage st fails in pipeline i
StageErr(i, st) == [job |-> i, stage |-> st]

\* the stages of a pipeline, in the order processFile calls them
StageOrder == <<"materialize", "extract", "read", "transcribe", "persist">>

\* what os.CreateTemp(s.tmpDir, name) creates: a name no other call gets
VideoFile(i) == [kind |-> "video", owner |-> i]
\* what ExtractAudio creates next to the video file
AudioFile(i) == [kind |-> "audio", owner |-> i]

\* the subtitle requestSubtitle returns for job i, byte by byte. Each byte
\* carries the job it comes from, and the subtitles of different jobs differ
\* in length (the first job's is the longest), so that what two writers
\* leave in one file can be told apart
Subtitle(i) == [k \in 1 .. MaxJobs + 1 - i |-> i]

\* the bytes of the file at path; <<>> when there is no such file
Content(files, path) ==
    IF \E f \in files : f.path = path
        THEN (CHOOSE f \in files : f.path = path).data
        ELSE <<>>

\* the directory after the file at path got the bytes data
Put(files, path, data) ==
    {f \in files : f.path # path} \cup {[path |-> path, data |-> data]}

\* the bytes of a file after data was written at offset 0 over old: the
\* bytes of old beyond the end of data stay
WriteAt0(old, data) ==
    [k \in 1 .. (IF Len(old) > Len(data) THEN Len(old) ELSE Len(data)) |->
        IF k <= Len(data) THEN data[k] ELSE old[k]]

InitGen ==
    /\ inputs \in {SameNamed(n) : n \in 0 .. MaxJobs}
                    \cup {AllDistinct(n) : n \in 0 .. MaxJobs}
    /\ mainpc = "spawn"
    /\ spawned = 0
    /\ wg = 0
    /\ errCh = <<>>
    /\ err = NoErr
    /\ ret = NoErr
    /\ pc = [i \in Jobs |-> "idle"]
    /\ deferred = [i \in Jobs |-> <<>>]
    /\ failed = [i \in Jobs |-> "none"]
    /\ stages = [i \in Jobs |-> <<>>]
    /\ sent = [i \in Jobs |-> 0]
    /\ tmpFiles = {}
    /\ outFiles = {}

\* faulty variant: a buffer one slot short of the number of pipelines
ErrChCapOneShort == IF inputs = <<>> THEN Len(inputs) ELSE Len(inputs) - 1
\* errCh = make(chan error, len(inputs))
ErrChCap == Len(inputs)

\* wg.Add(1); go func(...) { defer wg.Done(); s.processFile(...) }(...)
Spawn ==
    /\ mainpc = "spawn"
    /\ spawned < Len(inputs)
    /\ spawned' = spawned + 1
    /\ wg' = wg + 1
    /\ pc' = [pc EXCEPT ![spawned + 1] = "createTemp"]
    /\ UNCHANGED <<inputs, mainpc, errCh, err, ret, deferred, failed, stages,
                   sent, tmpFiles, outFiles, notGen>>

\* the range loop is over
SpawnEnd ==
    /\ mainpc = "spawn"
    /\ spawned = Len(inputs)
    /\ mainpc' = "wait"
    /\ UNCHANGED <<inputs, spawned, wg, errCh, err, ret, pc, deferred, failed,
                   stages, sent, tmpFiles, outFiles, notGen>>

\* faulty variant: no wg.Wait() before the channel is closed and read
WaitNoBarrier == TRUE
\* wg.Wait() returns when the counter is zero
WaitReturns == wg = 0

Wait ==
    /\ mainpc = "wait"
    /\ WaitReturns
    /\ mainpc' = "close"
    /\ UNCHANGED <<inputs, spawned, wg, errCh, err, ret, pc, deferred, failed,
                   stages, sent, tmpFiles, outFiles, notGen>>

\* close(errCh)
Close ==
    /\ mainpc = "close"
    /\ mainpc' = "drain"
    /\ UNCHANGED <<inputs, spawned, wg, errCh, err, ret, pc, deferred, failed,
                   stages, sent, tmpFiles, outFiles, notGen>>

\* faulty variant: "err := ..." in the loop body, the outer err is kept
DrainedShadowed(e) == err
\* err = fmt.Errorf("%w", e)
Drained(e) == e

\* for e := range errCh { ... }: one receive
Drain ==
    /\ mainpc = "drain"
    /\ errCh # <<>>
    /\ err' = Drained(Head(errCh))
    /\ errCh' = Tail(errCh)
    /\ UNCHANGED <<inputs, mainpc, spawned, wg, ret, pc, deferred, failed,
                   stages, sent, tmpFiles, outFiles, notGen>>

\* the closed channel is empty: if err != nil { return wrapped } return nil
Return ==
    /\ mainpc = "drain"
    /\ errCh = <<>>
    /\ ret' = err
    /\ mainpc' = "done"
    /\ UNCHANGED <<inputs, spawned, wg, errCh, err, pc, deferred, failed,
                   stages, sent, tmpFiles, outFiles, notGen>>

\* the number of os.Remove calls of the request that returned an error: the
\* files a pipeline that is cleaning up or over no longer has to remove and
\* that are still there (but for the one a failed io.Copy leaves, which
\* nothing tried to remove)
RemoveErrors ==
    Cardinality({f \in tmpFiles :
                    /\ pc[f.owner] \in {"cleanup", "finished"}
                    /\ failed[f.owner] # "copy"
                    /\ \A k \in 1 .. Len(deferred[f.owner]) : deferred[f.owner][k] # f})
\* the number of calls that returned an error so far
Faults == RemoveErrors + Cardinality({i \in Jobs : failed[i] # "none"})

\* the variables of the calling goroutine that no pipeline step changes
callerVars == <<inputs, mainpc, spawned, err, ret>>

Ran(i, st) == [stages EXCEPT ![i] = Append(@, st)]

\* faulty variant: the failure cancels a context the siblings share, and
\* every sibling that is between two stages gives up
FailCancelsSiblings(i, st) ==
    /\ Faults < MaxFaults
    /\ failed' = [failed EXCEPT ![i] = st]
    /\ pc' = [j \in Jobs |->
                IF j = i THEN "send"
                ELSE IF pc[j] \in {"copy", "extract", "read", "transcribe",
                             "create", "write", "close"}
                    THEN "cleanup"
                ELSE pc[j]]
\* a call returns an error: control goes to the "errCh <- ..." that follows
\* it; the other pipelines are not touched
Fail(i, st) ==
    /\ Faults < MaxFaults
    /\ failed' = [failed EXCEPT ![i] = st]
    /\ pc' = [pc EXCEPT ![i] = "send"]

\* createVideoFile: os.CreateTemp succeeds
CreateTempOK(i) ==
    /\ pc[i] = "createTemp"
    /\ tmpFiles' = tmpFiles \cup {VideoFile(i)}
    /\ stages' = Ran(i, "materialize")
    /\ pc' = [pc EXCEPT ![i] = "copy"]
    /\ UNCHANGED <<callerVars, wg, errCh, deferred, failed, sent, outFiles, notGen>>

\* createVideoFile: os.CreateTemp fails, nothing was created
CreateTempFail(i) ==
    /\ pc[i] = "createTemp"
    /\ stages' = Ran(i, "materialize")
    /\ Fail(i, "createTemp")
    /\ UNCHANGED <<callerVars, wg, errCh, deferred, sent, tmpFiles, outFiles, notGen>>

\* createVideoFile: io.Copy succeeds, the path is returned and processFile
\* defers its removal
CopyOK(i) ==
    /\ pc[i] = "copy"
    /\ deferred' = [deferred EXCEPT ![i] = Append(@, VideoFile(i))]
    /\ pc' = [pc EXCEPT ![i] = "extract"]
    /\ UNCHANGED <<callerVars, wg, errCh, failed, stages, sent, tmpFiles,
                   outFiles, notGen>>

\* createVideoFile: io.Copy fails: return "", err. The file os.CreateTemp
\* made is closed, not removed, and processFile returns before its defer
CopyFail(i) ==
    /\ pc[i] = "copy"
    /\ Fail(i, "copy")
    /\ UNCHANGED <<callerVars, wg, errCh, deferred, stages, sent, tmpFiles,
                   outFiles, notGen>>

\* extractAudio succeeds: the audio file exists, its removal is deferred.
\* (A failing ExtractAudio is taken to leave no file behind: processFile gets
\* no path from it and could not remove one.)
ExtractOK(i) ==
    /\ pc[i] = "extract"
    /\ tmpFiles' = tmpFiles \cup {AudioFile(i)}
    /\ deferred' = [deferred EXCEPT ![i] = Append(@, AudioFile(i))]
    /\ stages' = Ran(i, "extract")
    /\ pc' = [pc EXCEPT ![i] = "read"]
    /\ UNCHANGED <<callerVars, wg, errCh, failed, sent, outFiles, notGen>>

ExtractFail(i) ==
    /\ pc[i] = "extract"
    /\ stages' = Ran(i, "extract")
    /\ Fail(i, "extract")
    /\ UNCHANGED <<callerVars, wg, errCh, deferred, sent, tmpFiles, outFiles, notGen>>

\* readFile(audioFilePath)
ReadOK(i) ==
    /\ pc[i] = "read"
    /\ stages' = Ran(i, "read")
    /\ pc' = [pc EXCEPT ![i] = "transcribe"]
    /\ UNCHANGED <<callerVars, wg, errCh, deferred, failed, sent, tmpFiles,
                   outFiles, notGen>>

ReadFail(i) ==
    /\ pc[i] = "read"
    /\ stages' = Ran(i, "read")
    /\ Fail(i, "read")
    /\ UNCHANGED <<callerVars, wg, errCh, deferred, sent, tmpFiles, outFiles, notGen>>

\* requestSubtitle
TranscribeOK(i) ==
    /\ pc[i] = "transcribe"
    /\ stages' = Ran(i, "transcribe")
    /\ pc' = [pc EXCEPT ![i] = "create"]
    /\ UNCHANGED <<callerVars, wg, errCh, deferred, failed, sent, tmpFiles,
                   outFiles, notGen>>

TranscribeFail(i) ==
    /\ pc[i] = "transcribe"
    /\ stages' = Ran(i, "transcribe")
    /\ Fail(i, "transcribe")
    /\ UNCHANGED <<callerVars, wg, errCh, deferred, sent, tmpFiles, outFiles, notGen>>

\* subPath := subtitlePath(s.outputDir, in.FileName), for each job name
SubPathOf == [n \in JobNames |-> subtitlePath(subtitlesDir, n)]

\* writeFile: os.Create(path) creates the file or truncates the one that is
\* there, another pipeline's included; the descriptor it returns has its own
\* offset, 0
CreateOK(i) ==
    /\ pc[i] = "create"
    /\ outFiles' = Put(outFiles, SubPathOf[inputs[i]], <<>>)
    /\ stages' = Ran(i, "persist")
    /\ pc' = [pc EXCEPT ![i] = "write"]
    /\ UNCHANGED <<callerVars, wg, errCh, deferred, failed, sent, tmpFiles, notGen>>

\* writeFile: os.Create fails, the directory is as it was
CreateFail(i) ==
    /\ pc[i] = "create"
    /\ stages' = Ran(i, "persist")
    /\ Fail(i, "write")
    /\ UNCHANGED <<callerVars, wg, errCh, deferred, sent, tmpFiles, outFiles, notGen>>

\* writeFile: f.Write(data) puts the subtitle at offset 0 of whatever the
\* file holds by now
WriteOK(i) ==
    /\ pc[i] = "write"
    /\ outFiles' = Put(outFiles, SubPathOf[inputs[i]],
                       WriteAt0(Content(outFiles, SubPathOf[inputs[i]]), Subtitle(i)))
    /\ pc' = [pc EXCEPT ![i] = "close"]
    /\ UNCHANGED <<callerVars, wg, errCh, deferred, failed, stages, sent,
                   tmpFiles, notGen>>

\* writeFile: f.Write fails after it wrote n bytes, fewer than len(data)
WriteFail(i) ==
    /\ pc[i] = "write"
    /\ \E n \in 0 .. Len(Subtitle(i)) - 1 :
           outFiles' = Put(outFiles, SubPathOf[inputs[i]],
                           WriteAt0(Content(outFiles, SubPathOf[inputs[i]]),
                                    SubSeq(Subtitle(i), 1, n)))
    /\ Fail(i, "write")
    /\ UNCHANGED <<callerVars, wg, errCh, deferred, stages, sent, tmpFiles, notGen>>

\* writeFile: f.Close succeeds, writeFile returns nil and processFile returns
CloseOK(i) ==
    /\ pc[i] = "close"
    /\ pc' = [pc EXCEPT ![i] = "cleanup"]
    /\ UNCHANGED <<callerVars, wg, errCh, deferred, failed, stages, sent,
                   tmpFiles, outFiles, notGen>>

\* writeFile: f.Close fails, after the bytes were written
CloseFail(i) ==
    /\ pc[i] = "close"
    /\ Fail(i, "write")
    /\ UNCHANGED <<callerVars, wg, errCh, deferred, stages, sent, tmpFiles,
                   outFiles, notGen>>

\* faulty variant: the "return" after "errCh <- ..." is missing, control
\* falls through to the next stage
NextAfterSendNoReturn(i) ==
    CASE failed[i] = "createTemp" -> "copy"
      [] failed[i] = "copy" -> "extract"
      [] failed[i] = "extract" -> "read"
      [] failed[i] = "read" -> "transcribe"
      [] failed[i] = "transcribe" -> "create"
      [] OTHER -> "cleanup"
\* after "errCh <- ..." comes "return"
NextAfterSend(i) == "cleanup"

\* errCh <- fmt.Errorf(...): blocks while the buffer is full
Send(i) ==
    /\ pc[i] = "send"
    /\ Len(errCh) < ErrChCap
    /\ errCh' = Append(errCh, StageErr(i, failed[i]))
    /\ sent' = [sent EXCEPT ![i] = @ + 1]
    /\ pc' = [pc EXCEPT ![i] = NextAfterSend(i)]
    /\ UNCHANGED <<callerVars, wg, deferred, failed, stages, tmpFiles, outFiles, notGen>>

\* processFile has returned: its deferred s.removeFile calls run, last
\* deferred first; os.Remove takes the file out of the temp directory
RemoveFile(i) ==
    /\ pc[i] = "cleanup"
    /\ deferred[i] # <<>>
    /\ tmpFiles' = tmpFiles \ {deferred[i][Len(deferred[i])]}
    /\ deferred' = [deferred EXCEPT ![i] = SubSeq(@, 1, Len(@) - 1)]
    /\ UNCHANGED <<callerVars, wg, errCh, pc, failed, stages, sent, outFiles, notGen>>

\* removeFile when os.Remove returns an error: the error is logged, nothing
\* else is done about it, and the file stays in the temp directory
RemoveFileFail(i) ==
    /\ pc[i] = "cleanup"
    /\ Faults < MaxFaults
    /\ deferred[i] # <<>>
    /\ deferred' = [deferred EXCEPT ![i] = SubSeq(@, 1, Len(@) - 1)]
    /\ UNCHANGED <<callerVars, wg, errCh, pc, failed, stages, sent, tmpFiles,
                   outFiles, notGen>>

\* the goroutine's own "defer wg.Done()" runs after processFile is over
WgDone(i) ==
    /\ pc[i] = "cleanup"
    /\ deferred[i] = <<>>
    /\ wg' = wg - 1
    /\ pc' = [pc EXCEPT ![i] = "finished"]
    /\ UNCHANGED <<callerVars, errCh, deferred, failed, stages, sent, tmpFiles,
                   outFiles, notGen>>

IdleGen ==
    /\ inputs = <<>>
    /\ mainpc = "idle"
    /\ spawned = 0
    /\ wg = 0
    /\ errCh = <<>>
    /\ err = NoErr
    /\ ret = NoErr
    /\ pc = <<>>
    /\ deferred = <<>>
    /\ failed = <<>>
    /\ stages = <<>>
    /\ sent = <<>>
    /\ tmpFiles = {}
    /\ outFiles = {}

IdlePath ==
    /\ pname = <<>>
    /\ presult = <<>>
    /\ pstate = "idle"

IdleWeb ==
    /\ fs = <<>>
    /\ req = <<>>

IdleBoot ==
    /\ entry = "none"
    /\ key = FALSE
    /\ dirs = {}
    /\ mkdirOK = {}
    /\ bootpc = "idle"
    /\ exitCode = 0
    /\ mkdirFailed = {}
    /\ built = FALSE
    /\ listening = FALSE

Init == InitGen /\ IdlePath /\ IdleWeb /\ IdleBoot

Next ==
    \/ Spawn \/ SpawnEnd \/ Wait \/ Close \/ Drain \/ Return
    \/ \E i \in Jobs : CreateTempOK(i)
    \/ \E i \in Jobs : CreateTempFail(i)
    \/ \E i \in Jobs : CopyOK(i)
    \/ \E i \in Jobs : CopyFail(i)
    \/ \E i \in Jobs : ExtractOK(i)
    \/ \E i \in Jobs : ExtractFail(i)
    \/ \E i \in Jobs : ReadOK(i)
    \/ \E i \in Jobs : ReadFail(i)
    \/ \E i \in Jobs : TranscribeOK(i)
    \/ \E i \in Jobs : TranscribeFail(i)
    \/ \E i \in Jobs : CreateOK(i)
    \/ \E i \in Jobs : CreateFail(i)
    \/ \E i \in Jobs : WriteOK(i)
    \/ \E i \in Jobs : WriteFail(i)
    \/ \E i \in Jobs : CloseOK(i)
    \/ \E i \in Jobs : CloseFail(i)
    \/ \E i \in Jobs : Send(i)
    \/ \E i \in Jobs : RemoveFile(i)
    \/ \E i \in Jobs : RemoveFileFail(i)
    \/ \E i \in Jobs : WgDone(i)

Spec == Init /\ [][Next]_vars

\* the Go scheduler does not stop while some goroutine can take a step; no
\* goroutine loops, so this is all the fairness termination needs
FairSpec == Init /\ [][Next]_vars /\ WF_vars(Next)

----------------------------------------------------------------------------
(* Properties of GenerateFromAudioData *)

IsPrefix(s, t) == Len(s) <= Len(t) /\ s = SubSeq(t, 1, Len(s))

\* the pipeline stage a failing call belongs to
StageOf(st) ==
    CASE st \in {"createTemp", "copy"} -> "materialize"
      [] st = "write" -> "persist"
      [] OTHER -> st

\* pipeline i ran all its stages and writeFile returned nil
Wrote(i) ==
    /\ stages[i] = StageOrder
    /\ failed[i] = "none"
    /\ pc[i] \in {"cleanup", "finished"}

\* the jobs of the request that have the file name of job i
Namesakes(i) == {k \in Jobs : inputs[k] = inputs[i]}

\* the output directory has a file at job i's subtitle path, every byte of
\* it comes from a job with that file name, and it is the subtitle of job i
\* when no other job of the request has that file name
SubtitleOnDisk(i) ==
    \E f \in outFiles :
        /\ f.path = SubPathOf[inputs[i]]
        /\ \A k \in 1 .. Len(f.data) : f.data[k] \in Namesakes(i)
        /\ Namesakes(i) = {i} => f.data = Subtitle(i)

\* C1: every temp video file and temp audio file a pipeline created is gone
\* from the temp directory when that pipeline ends, hence when
\* GenerateFromAudioData returns, whatever stage failed.
C1_TempFilesRemoved ==
    /\ \A i \in Jobs : pc[i] = "finished" => ~ \E f \in tmpFiles : f.owner = i
    /\ mainpc = "done" => tmpFiles = {}

\* C2: when exactly one call fails in the whole request, and it is the audio
\* extraction or the transcription of pipeline i, GenerateFromAudioData
\* returns that error and every other pipeline has run all five stages and
\* written its SubtitleFile.
C2_SiblingsNotCancelled ==
    mainpc = "done" =>
        \A i \in Jobs :
            (/\ failed[i] \in {"extract", "transcribe"}
             /\ \A j \in Jobs \ {i} : failed[j] = "none")
            => /\ ret = StageErr(i, failed[i])
               /\ \A j \in Jobs \ {i} : Wrote(j) /\ SubtitleOnDisk(j)

C2_Witness ==
    /\ mainpc = "done"
    /\ Len(inputs) = 2
    /\ failed[1] = "extract"
    /\ failed[2] = "none"
    /\ ret # NoErr
    /\ Wrote(2)
    /\ inputs[1] # inputs[2]
    /\ Content(outFiles, SubPathOf[inputs[2]]) = Subtitle(2)

\* C3: GenerateFromAudioData returns nil exactly when every job's pipeline
\* wrote its SubtitleFile; after a nil return every job's SubtitleFile is in
\* the output directory, and a failure of any stage of any pipeline makes the
\* return value non-nil.
C3_NilIffAllWritten ==
    mainpc = "done" =>
        /\ (ret = NoErr) <=> (\A i \in Jobs : Wrote(i))
        /\ ret = NoErr => \A i \in Jobs : SubtitleOnDisk(i)
        /\ (\E i \in Jobs : failed[i] # "none") => ret # NoErr

C3_Witness ==
    /\ mainpc = "done"
    /\ Len(inputs) = 2
    /\ ret = NoErr
    /\ inputs[1] # inputs[2]
    /\ \A i \in Jobs : Wrote(i) /\ Content(outFiles, SubPathOf[inputs[i]]) = Subtitle(i)

\* C4: GenerateFromAudioData is past wg.Wait (closing or draining errCh, or
\* returned) only when every pipeline it launched has finished, its deferred
\* removals included; the aggregated error is not set before that.
C4_ReturnAfterAllPipelines ==
    /\ mainpc \in {"close", "drain", "done"} =>
           \A i \in Jobs : pc[i] = "finished" /\ deferred[i] = <<>>
    /\ mainpc \in {"spawn", "wait"} => err = NoErr

C4_Witness ==
    /\ mainpc = "drain"
    /\ Len(inputs) = 2
    /\ errCh # <<>>
    /\ \A i \in Jobs : pc[i] = "finished"

\* C9: in every pipeline the stages run in the order materialize, extract,
\* read, transcribe, persist, none twice; after a failing stage no later
\* stage runs, and when the stage is not persist itself no byte of the
\* pipeline's subtitle is in the output directory; a pipeline that is
\* over has sent exactly one error if a stage failed and none otherwise.
C9_StagesInOrderOneError ==
    \A i \in Jobs :
        /\ IsPrefix(stages[i], StageOrder)
        /\ failed[i] # "none" =>
               /\ stages[i] # <<>>
               /\ stages[i][Len(stages[i])] = StageOf(failed[i])
               /\ failed[i] # "write" =>
                      \A f \in outFiles : \A k \in 1 .. Len(f.data) : f.data[k] # i
        /\ sent[i] <= 1
        /\ pc[i] \in {"cleanup", "finished"} =>
               /\ failed[i] # "none" => sent[i] = 1
               /\ failed[i] = "none" => sent[i] = 0 /\ stages[i] = StageOrder

C9_Witness ==
    \E i \in Jobs :
        /\ pc[i] = "finished"
        /\ failed[i] = "read"
        /\ stages[i] = <<"materialize", "extract", "read">>
        /\ sent[i] = 1

\* how far each goroutine is from its end, as a position in its code
PcOrder ==
    <<"finished", "cleanup", "send", "close", "write", "create", "transcribe",
      "read", "extract", "copy", "createTemp", "idle">>
MainPcOrder == <<"done", "drain", "close", "wait", "spawn">>
PcLeft == [p \in {PcOrder[k] : k \in 1 .. Len(PcOrder)} |->
              CHOOSE k \in 1 .. Len(PcOrder) : PcOrder[k] = p]
MainPcLeft == [p \in {MainPcOrder[k] : k \in 1 .. Len(MainPcOrder)} |->
                  CHOOSE k \in 1 .. Len(MainPcOrder) : MainPcOrder[k] = p]

RECURSIVE PipelinesLeft(_)
PipelinesLeft(n) ==
    IF n = 0 THEN 0
    ELSE 3 * PcLeft[pc[n]] + Len(deferred[n]) + PipelinesLeft(n - 1)

\* an upper bound on the work left in the request: no step raises it
WorkLeft ==
    PipelinesLeft(Len(inputs)) + Len(errCh) + MainPcLeft[mainpc]

\* GenerateFromAudioData returns: every step brings the request nearer to
\* its end, and until it has returned some goroutine can take a step
C10_Terminates == <>(mainpc = "done")

\* C10: a pipeline that is about to send its error always finds room in
\* errCh (the channel never holds more than len(inputs) errors), and, every
\* call returning, GenerateFromAudioData eventually returns: every step
\* lowers the work left, and while it has not returned a step is possible.
C10_SendNeverBlocksAndReturns ==
    /\ [](\A i \in Jobs : pc[i] = "send" => Len(errCh) < ErrChCap)
    /\ [](Len(errCh) <= Len(inputs))
    /\ [][WorkLeft' < WorkLeft]_vars
    /\ [](mainpc # "done" => ENABLED Next)

C10_Witness ==
    /\ Len(inputs) = 2
    /\ Len(errCh) = 2
    /\ mainpc = "wait"
    /\ \A i \in Jobs : failed[i] # "none"

----------------------------------------------------------------------------
(* The handlers that scan the output directory *)

\* the characters of the names below, in byte order
CharOrder == <<".", "/", "a", "b", "d", "e", "i", "l", "m", "r", "s", "t", "u">>

Rank(c) == CHOOSE k \in 1 .. Len(CharOrder) : CharOrder[k] = c

\* byte-wise string order, the order in which os.ReadDir returns the entries
RECURSIVE LessFrom(_, _, _)
LessFrom(s, t, i) ==
    IF i > Len(s) THEN i <= Len(t)
    ELSE IF i > Len(t) THEN FALSE
    ELSE IF s[i] = t[i] THEN LessFrom(s, t, i + 1)
    ELSE Rank(s[i]) < Rank(t[i])

Less(s, t) == LessFrom(s, t, 1)

RECURSIVE Sorted(_)
Sorted(S) ==
    IF S = {} THEN <<>>
    ELSE LET least == CHOOSE x \in S : \A y \in S \ {x} : Less(x, y)
         IN  <<least>> \o Sorted(S \ {least})

aSrt == <<"a">> \o srt
bSrt == <<"b">> \o srt
bPlain == <<"b">>
dName == <<"d">>

\* names an entry directly inside the output directory may have
TopNames == {aSrt, bSrt, bPlain, dName}
\* names a file inside a subdirectory may have
InnerNames == {aSrt, bSrt}
\* the {name} path parameter of a request
RequestNames == TopNames \cup {subtitlesDir}

Absent == [kind |-> "absent", files |-> {}]
File == [kind |-> "file", files |-> {}]
Dir(files) == [kind |-> "dir", files |-> files]

\* what the server may find under each name: "a.srt", "b.srt" and "b" are
\* files, "d" is a directory with any of the inner names in it
EntriesFor(n) ==
    IF n = dName THEN {Absent} \cup {Dir(S) : S \in SUBSET InnerNames}
    ELSE {Absent, File}

\* no output directory at all
NoDir == [exists |-> FALSE, top |-> [n \in TopNames |-> Absent]]

\* an output directory that exists
Trees ==
    {[exists |-> TRUE, top |-> t] :
        t \in {u \in [TopNames -> {Absent, File} \cup {Dir(S) : S \in SUBSET InnerNames}] :
                  \A n \in TopNames : u[n] \in EntriesFor(n)}}

Present(f) == {n \in TopNames : f.top[n].kind # "absent"}

\* the path of the output directory itself, relative to it
Root == <<>>

\* file.Name() of a walked entry: the last element of its path
EntryName(p) == IF p = Root THEN subtitlesDir ELSE p[Len(p)]

\* the requests in flight: each runs in a goroutine of its own
Requests == 1 .. MaxRequests

\* a request that has not come in. A request keeps: where its walk is
\* (pc), the entry its callback is called on next (cur) and the entries
\* already read from their directories and not walked yet (todo); what it
\* answers (status, list); and, to state properties, the tree when it came
\* in (before) and when it answered (after), and whether nothing else
\* changed the directory in between (alone)
NoRequest ==
    [op |-> "none", name |-> <<>>, pc |-> "idle",
     cur |-> [path |-> Root, dir |-> TRUE], todo |-> <<>>,
     status |-> 0, list |-> <<>>, before |-> NoDir, after |-> NoDir,
     alone |-> TRUE]

\* start-up has made sure the output directory exists; what it holds is
\* whatever was there
InitWeb ==
    /\ fs \in Trees
    /\ req = [r \in Requests |-> NoRequest]

\* os.ReadDir(path): the entries of the directory as they are now, sorted by
\* name, each with the type it has now; an error when the directory is gone
ReadDirOf(f, p) ==
    IF p = Root
    THEN IF f.exists
         THEN [ok |-> TRUE,
               entries |-> LET names == Sorted(Present(f))
                           IN  [k \in 1 .. Len(names) |->
                                   [path |-> <<names[k]>>,
                                    dir |-> f.top[names[k]].kind = "dir"]]]
         ELSE [ok |-> FALSE, entries |-> <<>>]
    ELSE IF f.exists /\ f.top[p[1]].kind = "dir"
         THEN [ok |-> TRUE,
               entries |-> LET names == Sorted(f.top[p[1]].files)
                           IN  [k \in 1 .. Len(names) |->
                                   [path |-> <<p[1], names[k]>>, dir |-> FALSE]]]
         ELSE [ok |-> FALSE, entries |-> <<>>]

\* os.Remove(path): removes a file, or a directory that is empty; an error
\* when there is nothing at the path or the directory is not empty
RemoveOf(f, p) ==
    IF ~ f.exists THEN [ok |-> FALSE, fs |-> f]
    ELSE IF p = Root
        THEN IF Present(f) = {} THEN [ok |-> TRUE, fs |-> NoDir]
             ELSE [ok |-> FALSE, fs |-> f]
    ELSE IF Len(p) = 1
        THEN IF f.top[p[1]] \in {File, Dir({})}
             THEN [ok |-> TRUE, fs |-> [f EXCEPT !.top[p[1]] = Absent]]
             ELSE [ok |-> FALSE, fs |-> f]
    ELSE IF f.top[p[1]].kind = "dir" /\ p[2] \in f.top[p[1]].files
        THEN [ok |-> TRUE,
              fs |-> [f EXCEPT !.top[p[1]] = Dir(f.top[p[1]].files \ {p[2]})]]
        ELSE [ok |-> FALSE, fs |-> f]

\* walkDir goes on to the next entry, or WalkDir returns nil and the handler
\* answers
WalkOn(q) ==
    IF q.todo = <<>> THEN [q EXCEPT !.pc = "done", !.status = 200]
    ELSE [q EXCEPT !.pc = "visit", !.cur = Head(q.todo), !.todo = Tail(q.todo)]

\* the callback returned nil on q.cur: a directory is read next, a file is
\* done with
Visited(q) == IF q.cur.dir THEN [q EXCEPT !.pc = "readdir"] ELSE WalkOn(q)

\* the callback returned an error: WalkDir returns it and h.e answers 500.
\* (listSubtitles then still encodes the names it has.)
WalkFailed(q) == [q EXCEPT !.pc = "done", !.status = 500]

\* what the step of request r that makes its record q and the tree f leaves
\* in req: the answer of r is given in the tree f, and the requests that are
\* walking see the directory change under them
Stepped(r, q, f) ==
    [s \in Requests |->
        IF s = r THEN IF q.pc = "done" THEN [q EXCEPT !.after = f] ELSE q
        ELSE IF f # fs /\ req[s].pc \notin {"idle", "done"}
            THEN [req[s] EXCEPT !.alone = FALSE]
        ELSE req[s]]

\* GET /subtitles comes in
StartList(r) ==
    /\ req[r].op = "none"
    /\ req' = [req EXCEPT ![r] = [NoRequest EXCEPT !.op = "list", !.pc = "lstat",
                                                   !.before = fs]]
    /\ UNCHANGED <<fs, notWeb>>

\* DELETE /subtitles/{name} comes in
StartDelete(r) ==
    /\ req[r].op = "none"
    /\ \E name \in RequestNames :
          req' = [req EXCEPT ![r] = [NoRequest EXCEPT !.op = "delete", !.pc = "lstat",
                                                      !.name = name, !.before = fs]]
    /\ UNCHANGED <<fs, notWeb>>

\* filepath.WalkDir: os.Lstat(root); when it fails the callback is called
\* with the error and returns it
Lstat(r) ==
    /\ req[r].pc = "lstat"
    /\ req' = Stepped(r, IF fs.exists THEN [req[r] EXCEPT !.pc = "visit"]
                         ELSE WalkFailed(req[r]), fs)
    /\ UNCHANGED <<fs, notWeb>>

\* the listSubtitles callback on one entry: a directory is passed over, the
\* name of a file is appended when its extension is ".srt"
ListSubtitles(r) ==
    /\ req[r].op = "list"
    /\ req[r].pc = "visit"
    /\ LET q == req[r]
           name == EntryName(q.cur.path)
       IN  req' = Stepped(r, Visited(IF ~ q.cur.dir /\ Ext(name) = srt
                                        THEN [q EXCEPT !.list = Append(@, name)]
                                        ELSE q), fs)
    /\ UNCHANGED <<fs, notWeb>>

\* the deleteSubtitle callback on one entry: os.Remove(filePath) when the
\* entry has the name asked for
DeleteSubtitle(r) ==
    /\ req[r].op = "delete"
    /\ req[r].pc = "visit"
    /\ LET q == req[r]
           removed == RemoveOf(fs, q.cur.path)
       IN  IF EntryName(q.cur.path) # q.name
              THEN /\ req' = Stepped(r, Visited(q), fs)
                   /\ UNCHANGED fs
           ELSE IF removed.ok
              THEN /\ fs' = removed.fs
                   /\ req' = Stepped(r, Visited(q), removed.fs)
           ELSE /\ req' = Stepped(r, WalkFailed(q), fs)
                /\ UNCHANGED fs
    /\ UNCHANGED notWeb

\* walkDir: os.ReadDir of the directory the callback was just called on;
\* when it fails the callback is called again, with the error, and returns it
ReadDir(r) ==
    /\ req[r].pc = "readdir"
    /\ LET q == req[r]
           read == ReadDirOf(fs, q.cur.path)
       IN  req' = Stepped(r, IF read.ok
                                THEN WalkOn([q EXCEPT !.todo = read.entries \o @])
                                ELSE WalkFailed(q), fs)
    /\ UNCHANGED <<fs, notWeb>>

\* a pipeline of an upload gets to os.Create(subPath) in writeFile: the
\* file is created when it is not there
CreateSubtitleFile ==
    /\ fs.exists
    /\ \E name \in {n \in TopNames : Ext(n) = srt} :
          /\ fs.top[name] = Absent
          /\ fs' = [fs EXCEPT !.top[name] = File]
          /\ req' = [s \in Requests |->
                        IF req[s].pc \notin {"idle", "done"}
                            THEN [req[s] EXCEPT !.alone = FALSE]
                        ELSE req[s]]
    /\ UNCHANGED notWeb

NextWeb ==
    \/ \E r \in Requests : StartList(r)
    \/ \E r \in Requests : StartDelete(r)
    \/ \E r \in Requests : Lstat(r)
    \/ \E r \in Requests : ListSubtitles(r)
    \/ \E r \in Requests : DeleteSubtitle(r)
    \/ \E r \in Requests : ReadDir(r)
    \/ CreateSubtitleFile

WebInit == InitWeb /\ IdleGen /\ IdlePath /\ IdleBoot

SpecWeb == WebInit /\ [][NextWeb]_vars

\* the subtitles of a tree: the ".srt" files directly inside the directory
TopSubtitles(f) ==
    IF f.exists THEN {n \in TopNames : f.top[n].kind = "file" /\ Ext(n) = srt}
    ELSE {}

Range(q) == {q[k] : k \in 1 .. Len(q)}

\* the request has answered, and while it ran nothing else changed the
\* output directory
AnsweredAlone(r, op) == req[r].op = op /\ req[r].pc = "done" /\ req[r].alone

\* C6: List returns exactly the base names of the ".srt" files directly inside
\* the output directory, a ".srt" file in a subdirectory is not listed.
C6_ListIsNotRecursive ==
    \A r \in Requests :
        (AnsweredAlone(r, "list") /\ req[r].status = 200) =>
            /\ Range(req[r].list) = TopSubtitles(req[r].before)
            /\ Len(req[r].list) = Cardinality(TopSubtitles(req[r].before))

\* C7: after Delete of a name that exists in the output directory, a List of
\* the directory as Delete left it omits that name and still lists every
\* other subtitle; Delete of a name absent from the output directory answers
\* without an error status and leaves the output directory as it was.
C7_DeleteFrame ==
    \A r \in Requests :
        AnsweredAlone(r, "delete") =>
            IF req[r].before.exists /\ req[r].name \in Present(req[r].before)
            THEN \A s \in Requests :
                    (AnsweredAlone(s, "list") /\ req[s].before = req[r].after) =>
                        /\ req[r].name \notin Range(req[s].list)
                        /\ TopSubtitles(req[r].before) \ {req[r].name}
                               \subseteq Range(req[s].list)
            ELSE /\ req[r].status = 200
                 /\ req[r].after = req[r].before

----------------------------------------------------------------------------
(* Process start-up: the two main functions *)

tmpDir == <<"t", "m", "p">>

BothDirs == {subtitlesDir, tmpDir}

\* the order in which a main creates the directories
DirOrder(e) ==
    IF e = "flag" THEN <<subtitlesDir, tmpDir>> ELSE <<tmpDir, subtitlesDir>>

InitBoot ==
    /\ entry \in {"flag", "env"}
    /\ key \in BOOLEAN
    /\ dirs \in SUBSET BothDirs
    /\ mkdirOK \in SUBSET BothDirs
    /\ bootpc = "checkKey"
    /\ exitCode = 0
    /\ mkdirFailed = {}
    /\ built = FALSE
    /\ listening = FALSE

\* if *openAIKey == "" / if openAIKey == "" { ...; os.Exit(1) }
CheckKey ==
    /\ bootpc = "checkKey"
    /\ IF key
          THEN bootpc' = "dir1" /\ UNCHANGED exitCode
          ELSE bootpc' = "exited" /\ exitCode' = 1
    /\ UNCHANGED <<entry, key, dirs, mkdirOK, mkdirFailed, built, listening, notBoot>>

\* what a main does when os.Mkdir returns an error: makeDir logs and calls
\* os.Exit(2); the other main only logs
AfterMkdirError(e, next) ==
    IF e = "flag" THEN [pc |-> "exited", code |-> 2]
    ELSE [pc |-> next, code |-> 0]

\* os.Stat, and os.Mkdir when the directory does not exist
MakeDir(at, next) ==
    /\ bootpc = at
    /\ LET d == DirOrder(entry)[IF at = "dir1" THEN 1 ELSE 2]
       IN  IF d \in dirs
              THEN /\ bootpc' = next
                   /\ UNCHANGED <<dirs, exitCode, mkdirFailed>>
           ELSE IF d \in mkdirOK
              THEN /\ dirs' = dirs \cup {d}
                   /\ bootpc' = next
                   /\ UNCHANGED <<exitCode, mkdirFailed>>
           ELSE /\ mkdirFailed' = mkdirFailed \cup {d}
                /\ bootpc' = AfterMkdirError(entry, next).pc
                /\ exitCode' = AfterMkdirError(entry, next).code
                /\ UNCHANGED dirs
    /\ UNCHANGED <<entry, key, mkdirOK, built, listening, notBoot>>

MakeDir1 == MakeDir("dir1", "dir2")
MakeDir2 == MakeDir("dir2", "build")

\* subtitles.New(...): always returns a nil error
Build ==
    /\ bootpc = "build"
    /\ built' = TRUE
    /\ bootpc' = "run"
    /\ UNCHANGED <<entry, key, dirs, mkdirOK, exitCode, mkdirFailed, listening, notBoot>>

\* webApp.Run(): starts ListenAndServe in a goroutine, returns nil
Run ==
    /\ bootpc = "run"
    /\ listening' = TRUE
    /\ bootpc' = "serving"
    /\ UNCHANGED <<entry, key, dirs, mkdirOK, exitCode, mkdirFailed, built, notBoot>>

\* <-c; webApp.Stop(); main returns
Stop ==
    /\ bootpc = "serving"
    /\ listening' = FALSE
    /\ bootpc' = "exited"
    /\ UNCHANGED <<entry, key, dirs, mkdirOK, exitCode, mkdirFailed, built, notBoot>>

NextBoot == CheckKey \/ MakeDir1 \/ MakeDir2 \/ Build \/ Run \/ Stop

BootInit == InitBoot /\ IdleGen /\ IdlePath /\ IdleWeb

SpecBoot == BootInit /\ [][NextBoot]_vars

\* C8: in both mains, without the API credential, or once os.Mkdir of the
\* temp or of the output directory has failed, the orchestrator is never
\* built and the listener never started: the process has exited.
C8_StartupFailuresAreFatal ==
    /\ (~ key \/ mkdirFailed # {}) => ~ built /\ ~ listening
    /\ (~ key /\ bootpc # "checkKey") => bootpc = "exited" /\ exitCode # 0
    /\ mkdirFailed # {} => bootpc = "exited" /\ exitCode # 0

----------------------------------------------------------------------------
(* subtitlePath against its description *)

NextPath == ComputeSubtitlePath

PathInit == InitPath /\ IdleGen /\ IdleWeb /\ IdleBoot

SpecPath == PathInit /\ [][NextPath]_vars

\* the last slash-separated element of a name
RECURSIVE LastSlash(_, _)
LastSlash(p, i) == IF i < 1 THEN 0 ELSE IF p[i] = "/" THEN i ELSE LastSlash(p, i - 1)

BaseName(p) == Suffix(p, LastSlash(p, Len(p)) + 1)

\* a name without its extension, the suffix that starts at its last dot
TrimExt(p) == SubSeq(p, 1, Len(p) - Len(Ext(p)))

\* C5: the subtitle path is the output directory joined with the base name
\* of the file name, its extension (from the last dot on) replaced by ".srt".
C5_SubtitlePathReplacesExtension ==
    pstate = "computed" =>
        presult = Join(subtitlesDir, TrimExt(BaseName(pname)) \o srt)

====
